---------------------------- MODULE Spec2Model ----------------------------
(***************************************************************************)
(* TraceBuilder::Impl of mediapipe/framework/profiler/trace_builder.cc:    *)
(* the two interners (StringIdMap, AddressIdMap), the time base, the       *)
(* invocation index task_events_ and the hop index hop_events_, and the    *)
(* operations CreateTrace, CreateLog, Clear and TimestampAfter over a      *)
(* TraceBuffer that writers append to.                                     *)
(***************************************************************************)
EXTENDS Integers, Sequences, FiniteSets, TLC

VARIABLES
  buffer,               \* the TraceBuffer: the events appended so far
  task_events_,         \* TaskId -> EventList (list of event pointers)
  hop_events_,          \* TaskId -> event pointer (or NullEvent)
  stream_id_map_,       \* StringIdMap
  packet_data_id_map_,  \* AddressIdMap
  base_ts_,             \* int64, Int64Max while unset
  base_time_,           \* int64, Int64Max while unset
  history,              \* the calls made on the builder, oldest first
  max_ts_after          \* what the last step returned, if it was TimestampAfter

vars == <<buffer, task_events_, hop_events_, stream_id_map_,
          packet_data_id_map_, base_ts_, base_time_, history, max_ts_after>>

----------------------------------------------------------------------------
(* Bounds of the model.                                                    *)

MaxBuffer == 3   \* events the writers append
MaxCalls == 2    \* CreateTrace and CreateLog calls on the builder

----------------------------------------------------------------------------
(* Values.                                                                 *)

\* int64 is modelled with 16 bits; arithmetic wraps as two's complement.
Int64Max == 32767
Int64Min == -Int64Max - 1
Wrap(x) == ((x - Int64Min) % (2 * (Int64Max + 1))) + Int64Min

\* GraphTrace::EventType, in declaration order (the index into the tables).
UNKNOWN == 0
OPEN == 1
PROCESS == 2
CLOSE == 3
NOT_READY == 4
READY_FOR_PROCESS == 5
READY_FOR_CLOSE == 6
THROTTLED == 7
UNTHROTTLED == 8
CPU_TASK_USER == 9
CPU_TASK_SYSTEM == 10
GPU_TASK == 11
DSP_TASK == 12
TPU_TASK == 13

\* For each event-type, whether packet details are logged (0-based table).
kProfilerPacketEvents(event_type) ==
  <<FALSE, TRUE, TRUE, TRUE,
    FALSE, FALSE, FALSE, FALSE, FALSE,
    TRUE, TRUE, TRUE, TRUE, TRUE>>[event_type + 1]

\* For each calculator method, whether StreamTraces are desired.
kProfilerStreamEvents(event_type) ==
  <<FALSE, TRUE, TRUE, TRUE,
    FALSE, FALSE, FALSE, FALSE, FALSE,
    TRUE, TRUE, FALSE, FALSE, FALSE>>[event_type + 1]

\* Timestamp::Unset(): the special value an event without a timestamp holds.
TimestampUnset == Int64Min
\* Timestamp::Min(), the start value of TimestampAfter: the smallest
\* timestamp above the special values Unset, Unstarted and PreStream.
TimestampMin == Int64Min + 3
IsSpecialValue(ts) == ts < TimestampMin

\* std::string objects the events point to: two objects hold "s1".
nullptr == "nullptr"
empty_string == "&empty_string"
StringContent(p) ==
  CASE p = "&s1a" -> "s1"
    [] p = "&s1b" -> "s1"
    [] p = "&s2" -> "s2"
    [] p = empty_string -> ""

\* f of the value v: gives the value of a call a name, as a local variable of
\* the source does.
Let(v, f(_)) == f(v)

\* An optional protobuf field: <<>> when not set, <<v>> when set to v.
NotSet == <<>>
Set(v) == <<v>>

\* An event read through a pointer into a snapshot.
NullEvent == [gen |-> 0, idx |-> 0]

----------------------------------------------------------------------------
(* The interners.                                                          *)

\* m with key k bound to v (std::unordered_map::operator[] assignment).
Put(m, k, v) == [x \in DOMAIN m \cup {k} |-> IF x = k THEN v ELSE m[x]]
EmptyMap == [x \in {} |-> 0]

\* StringIdMap before any lookup.
NewStringIdMap ==
  [pointer_id_map_ |-> EmptyMap, string_id_map_ |-> EmptyMap, next_id |-> 0]

\* StringIdMap::operator[] that gives every new pointer a new id, whatever
\* the content.
StringIdLookupByPointer(m, id) ==
  IF id = nullptr THEN [id |-> 0, map |-> m]
  ELSE IF id \in DOMAIN m.pointer_id_map_
    THEN [id |-> m.pointer_id_map_[id], map |-> m]
  ELSE [id |-> m.next_id,
        map |-> [pointer_id_map_ |-> Put(m.pointer_id_map_, id, m.next_id),
                 string_id_map_ |->
                   Put(m.string_id_map_, StringContent(id), m.next_id),
                 next_id |-> Wrap(m.next_id + 1)]]

\* StringIdMap::operator[]: the id of a std::string pointer and the map after
\* the lookup.
StringIdLookup(m, id) ==
  IF id = nullptr THEN [id |-> 0, map |-> m]
  ELSE IF id \in DOMAIN m.pointer_id_map_
    THEN [id |-> m.pointer_id_map_[id], map |-> m]
  ELSE
    LET content == StringContent(id)
        known == content \in DOMAIN m.string_id_map_
        strings == IF known THEN m.string_id_map_
                   ELSE Put(m.string_id_map_, content, m.next_id)
        next == IF known THEN m.next_id ELSE Wrap(m.next_id + 1)
    IN [id |-> strings[content],
        map |-> [pointer_id_map_ |-> Put(m.pointer_id_map_, id, strings[content]),
                 string_id_map_ |-> strings,
                 next_id |-> next]]

\* AddressIdMap before any lookup.
NewAddressIdMap == [pointer_id_map_ |-> EmptyMap, next_id |-> 0]

\* AddressIdMap::operator[] that never finds the address.
AddressIdLookupFresh(m, id) ==
  [id |-> m.next_id,
   map |-> [pointer_id_map_ |-> Put(m.pointer_id_map_, id, m.next_id),
            next_id |-> Wrap(m.next_id + 1)]]

\* AddressIdMap::operator[].
AddressIdLookup(m, id) ==
  IF id \in DOMAIN m.pointer_id_map_
    THEN [id |-> m.pointer_id_map_[id], map |-> m]
  ELSE [id |-> m.next_id,
        map |-> [pointer_id_map_ |-> Put(m.pointer_id_map_, id, m.next_id),
                 next_id |-> Wrap(m.next_id + 1)]]

\* GetIdNames that leaves the reserved id out: the name of id i + 1 at index i.
GetIdNamesUnreserved(id_map) ==
  LET ids == {id_map.string_id_map_[c] : c \in DOMAIN id_map.string_id_map_}
      size == IF ids = {} THEN 0
              ELSE (CHOOSE i \in ids : \A j \in ids : j <= i) + 1
  IN [i \in 0..(size - 2) |->
        CHOOSE c \in DOMAIN id_map.string_id_map_ :
          id_map.string_id_map_[c] = i + 1]

\* GetIdNames: the names indexed by id, "" where no name has the id.
GetIdNames(id_map) ==
  LET ids == {id_map.string_id_map_[c] : c \in DOMAIN id_map.string_id_map_}
      size == IF ids = {} THEN 0
              ELSE (CHOOSE i \in ids : \A j \in ids : j <= i) + 1
  IN [i \in 0..(size - 1) |->
        IF i \in ids
          THEN CHOOSE c \in DOMAIN id_map.string_id_map_ :
                 id_map.string_id_map_[c] = i
          ELSE ""]

\* A constructor that does not define the zero id of the packet interner.
ImplPacketDataIdMapUnreserved == NewAddressIdMap

\* TraceBuilder::Impl::Impl: the zero ids of both interners.
ImplStreamIdMap == StringIdLookup(NewStringIdMap, empty_string).map
ImplPacketDataIdMap == AddressIdLookup(NewAddressIdMap, nullptr).map

----------------------------------------------------------------------------
(* Events, snapshots and pointers into snapshots.                          *)

\* TraceEvent.
TraceEvent(event_type, node_id, input_ts, is_finish, event_time, stream_id, packet_ts, packet_data_id, thread_id) ==
  [event_type |-> event_type, node_id |-> node_id, input_ts |-> input_ts,
   is_finish |-> is_finish, event_time |-> event_time,
   stream_id |-> stream_id, packet_ts |-> packet_ts,
   packet_data_id |-> packet_data_id, thread_id |-> thread_id]

\* TaskId: a task (node_id, input_ts, event_type) or a stream hop
\* (stream id, packet_ts, event_type).
TaskId(id, ts, event_type) == [id |-> id, ts |-> ts, event_type |-> event_type]

\* The snapshot loop of CreateTrace and CreateLog: the events of the buffer
\* with begin_time <= event_time < end_time, in buffer order.
Snapshot(buf, begin_time, end_time) ==
  SelectSeq(buf, LAMBDA event :
    event.event_time >= begin_time /\ event.event_time < end_time)

\* &event for the event at index idx of the snapshot of call number gen. val
\* is the event the pointer was taken of.
PointerTo(gen, idx, event) == [gen |-> gen, idx |-> idx, val |-> event]

\* Reading an event through a pointer, in a call ctx = [gen, snapshot,
\* dangling]. A pointer into the snapshot of this call reads that snapshot.
\* A pointer into the snapshot of an earlier call dangles (the vector was
\* destroyed when that call returned); what the read yields is not defined:
\* the bytes the old event left ("stale"), the event that the snapshot of
\* this call holds at the same index when the allocation is reused
\* ("reused"), or any other event ("other").
Deref(ptr, ctx) ==
  IF ptr.gen = ctx.gen THEN ctx.snapshot[ptr.idx]
  ELSE CASE ctx.dangling.kind = "stale" -> ptr.val
         [] ctx.dangling.kind = "reused" ->
              IF ptr.idx <= Len(ctx.snapshot) THEN ctx.snapshot[ptr.idx]
              ELSE ptr.val
         [] OTHER -> ctx.dangling.event

----------------------------------------------------------------------------
(* The builder: b = [task_events_, hop_events_, stream_id_map_,            *)
(* packet_data_id_map_, base_ts_, base_time_].                             *)

RECURSIVE SetBaseTimeLoop(_, _, _)
\* The loop of SetBaseTime over the events i.. of the snapshot.
SetBaseTimeLoop(b, snapshot, i) ==
  IF i > Len(snapshot) THEN b
  ELSE
    LET event == snapshot[i]
        ts1 == IF ~IsSpecialValue(event.input_ts) /\ event.input_ts < b.base_ts_
               THEN event.input_ts ELSE b.base_ts_
        ts2 == IF ~IsSpecialValue(event.packet_ts) /\ event.packet_ts < ts1
               THEN event.packet_ts ELSE ts1
        time == IF event.event_time < b.base_time_
                THEN event.event_time ELSE b.base_time_
    IN SetBaseTimeLoop([b EXCEPT !.base_ts_ = ts2, !.base_time_ = time],
                       snapshot, i + 1)

\* SetBaseTime that calculates the bases anew in every call.
SetBaseTimeEveryCall(b, snapshot) ==
  Let(SetBaseTimeLoop([b EXCEPT !.base_ts_ = Int64Max,
                                !.base_time_ = Int64Max], snapshot, 1),
      LAMBDA s :
    [s EXCEPT
       !.base_time_ = IF s.base_time_ = Int64Max THEN 0 ELSE s.base_time_,
       !.base_ts_ = IF s.base_ts_ = Int64Max THEN 0 ELSE s.base_ts_])

\* SetBaseTime that leaves the bases unset after an empty snapshot, so that
\* the first non-empty snapshot sets them.
SetBaseTimeWhenNonEmpty(b, snapshot) ==
  IF b.base_time_ = Int64Max /\ snapshot # <<>> THEN
    Let(SetBaseTimeLoop(b, snapshot, 1), LAMBDA s :
      [s EXCEPT !.base_ts_ = IF s.base_ts_ = Int64Max THEN 0 ELSE s.base_ts_])
  ELSE b

\* SetBaseTime without the defaults for bases that the loop left unset.
SetBaseTimeNoDefault(b, snapshot) ==
  IF b.base_time_ = Int64Max THEN SetBaseTimeLoop(b, snapshot, 1) ELSE b

\* SetBaseTime: calculate the base timestamp and time.
SetBaseTime(b, snapshot) ==
  IF b.base_time_ = Int64Max THEN
    Let(SetBaseTimeLoop(b, snapshot, 1), LAMBDA s :
      [s EXCEPT
         !.base_time_ = IF s.base_time_ = Int64Max THEN 0 ELSE s.base_time_,
         !.base_ts_ = IF s.base_ts_ = Int64Max THEN 0 ELSE s.base_ts_])
  ELSE b

\* LogTimestamp: a timestamp relative to the base timestamp.
LogTimestamp(b, ts) == Wrap(ts - b.base_ts_)

\* LogTime that forgets the base time.
LogTimeAbsolute(b, time) == Wrap(time)

\* LogTime: a time relative to the base time.
LogTime(b, time) == Wrap(time - b.base_time_)

\* GraphTrace::StreamTrace with no field set.
NewStreamTrace ==
  [stream_id |-> NotSet, packet_timestamp |-> NotSet, start_time |-> NotSet,
   finish_time |-> NotSet, packet_id |-> NotSet]

\* GraphTrace::CalculatorTrace with no field set.
NewCalculatorTrace ==
  [node_id |-> NotSet, event_type |-> NotSet, input_timestamp |-> NotSet,
   thread_id |-> NotSet, start_time |-> NotSet, finish_time |-> NotSet,
   input_trace |-> <<>>, output_trace |-> <<>>]

\* FindOutputEvent that keys the hop by the node of the event instead of its
\* stream.
FindOutputEventByNode(b, event) ==
  LET hop_id == TaskId(event.node_id, event.packet_ts, event.event_type)
      hops == IF hop_id \in DOMAIN b.hop_events_ THEN b.hop_events_
              ELSE Put(b.hop_events_, hop_id, NullEvent)
  IN [b |-> [b EXCEPT !.hop_events_ = hops], output_event |-> hops[hop_id]]

\* FindOutputEvent: the output event that produced an input packet, and the
\* builder after the lookup (operator[] of hop_events_ inserts a null entry
\* for a key it does not hold).
FindOutputEvent(b, event) ==
  Let(StringIdLookup(b.stream_id_map_, event.stream_id), LAMBDA s :
    LET hop_id == TaskId(s.id, event.packet_ts, event.event_type)
        hops == IF hop_id \in DOMAIN b.hop_events_ THEN b.hop_events_
                ELSE Put(b.hop_events_, hop_id, NullEvent)
    IN [b |-> [b EXCEPT !.stream_id_map_ = s.map, !.hop_events_ = hops],
        output_event |-> hops[hop_id]])

\* BuildStreamTrace: the StreamTrace for a TraceEvent.
BuildStreamTrace(b, event, ctx) ==
  Let(StringIdLookup(b.stream_id_map_, event.stream_id), LAMBDA s :
    IF event.is_finish
    THEN [b |-> [b EXCEPT !.stream_id_map_ = s.map],
          trace |-> [NewStreamTrace EXCEPT
                       !.stream_id = Set(s.id),
                       !.packet_timestamp =
                         Set(LogTimestamp(b, event.packet_ts))]]
    ELSE
      Let(AddressIdLookup(b.packet_data_id_map_, event.packet_data_id),
          LAMBDA p :
      Let(FindOutputEvent([b EXCEPT !.stream_id_map_ = s.map,
                                    !.packet_data_id_map_ = p.map], event),
          LAMBDA found :
        [b |-> found.b,
         trace |-> [NewStreamTrace EXCEPT
                      !.stream_id = Set(s.id),
                      !.packet_timestamp =
                        Set(LogTimestamp(b, event.packet_ts)),
                      !.finish_time = Set(LogTime(b, event.event_time)),
                      !.packet_id = Set(p.id),
                      !.start_time =
                        IF found.output_event.gen # 0
                        THEN Set(LogTime(b,
                               Deref(found.output_event, ctx).event_time))
                        ELSE NotSet]])))

\* The smaller of two optional times (absl::InfiniteFuture() is NotSet).
MinTime(a, time) == IF a = NotSet \/ time < a[1] THEN Set(time) ELSE a

RECURSIVE BuildCalculatorTraceLoop(_, _, _, _)
\* The loop of BuildCalculatorTrace over the entries i.. of task_events;
\* acc = [b, result, start_time, finish_time].
BuildCalculatorTraceLoop(acc, task_events, i, ctx) ==
  IF i > Len(task_events) THEN acc
  ELSE
    LET event == Deref(task_events[i], ctx)
        r0 == acc.result
        r1 == IF Len(r0.input_trace) + Len(r0.output_trace) = 0
              THEN [r0 EXCEPT
                      !.node_id = Set(event.node_id),
                      !.event_type = Set(event.event_type),
                      !.input_timestamp = Set(LogTimestamp(acc.b, event.input_ts)),
                      !.thread_id = Set(event.thread_id)]
              ELSE r0
        finish_time == IF event.is_finish
                       THEN MinTime(acc.finish_time, event.event_time)
                       ELSE acc.finish_time
        start_time == IF event.is_finish THEN acc.start_time
                      ELSE MinTime(acc.start_time, event.event_time)
        next == IF ~kProfilerStreamEvents(event.event_type)
                THEN [acc EXCEPT !.result = r1]
                ELSE Let(BuildStreamTrace(acc.b, event, ctx), LAMBDA st :
                  IF event.is_finish
                  THEN [acc EXCEPT !.b = st.b, !.result =
                          [r1 EXCEPT !.output_trace = Append(@, st.trace)]]
                  ELSE [acc EXCEPT !.b = st.b, !.result =
                          [r1 EXCEPT !.input_trace = Append(@, st.trace)]])
    IN BuildCalculatorTraceLoop(
         [next EXCEPT !.start_time = start_time, !.finish_time = finish_time],
         task_events, i + 1, ctx)

\* BuildCalculatorTrace: the CalculatorTrace for a set of TraceEvents.
BuildCalculatorTrace(b, task_events, ctx) ==
  Let(BuildCalculatorTraceLoop(
        [b |-> b, result |-> NewCalculatorTrace,
         start_time |-> NotSet, finish_time |-> NotSet],
        task_events, 1, ctx),
      LAMBDA acc :
    [b |-> acc.b,
     trace |-> [acc.result EXCEPT
       !.finish_time = IF acc.finish_time # NotSet
                       THEN Set(LogTime(b, acc.finish_time[1])) ELSE @,
       !.start_time = IF acc.start_time # NotSet
                      THEN Set(LogTime(b, acc.start_time[1])) ELSE @]])

\* BuildEventLog without the test of event.stream_id: a transfer for every
\* event of a stream-hop kind.
BuildEventLogEveryStream(b, event) ==
  LET r1 == IF event.is_finish
            THEN [NewCalculatorTrace EXCEPT
                    !.finish_time = Set(LogTime(b, event.event_time))]
            ELSE [NewCalculatorTrace EXCEPT
                    !.start_time = Set(LogTime(b, event.event_time))]
      r2 == [r1 EXCEPT !.node_id = Set(event.node_id),
                       !.event_type = Set(event.event_type),
                       !.thread_id = Set(event.thread_id)]
      r3 == IF event.input_ts # TimestampUnset
            THEN [r2 EXCEPT !.input_timestamp =
                    Set(LogTimestamp(b, event.input_ts))]
            ELSE r2
  IN IF kProfilerStreamEvents(event.event_type)
     THEN
       Let(StringIdLookup(b.stream_id_map_, event.stream_id), LAMBDA s :
       Let(AddressIdLookup(b.packet_data_id_map_, event.packet_data_id),
           LAMBDA p :
         LET stream_trace == [NewStreamTrace EXCEPT
                                !.stream_id = Set(s.id),
                                !.packet_timestamp =
                                  Set(LogTimestamp(b, event.packet_ts)),
                                !.packet_id = Set(p.id)]
         IN [b |-> [b EXCEPT !.stream_id_map_ = s.map,
                             !.packet_data_id_map_ = p.map],
             trace |-> IF event.is_finish
                       THEN [r3 EXCEPT !.output_trace = <<stream_trace>>]
                       ELSE [r3 EXCEPT !.input_trace = <<stream_trace>>]]))
     ELSE [b |-> b, trace |-> r3]

\* BuildEventLog: the protobuf log record for a single TraceEvent.
BuildEventLog(b, event) ==
  LET r1 == IF event.is_finish
            THEN [NewCalculatorTrace EXCEPT
                    !.finish_time = Set(LogTime(b, event.event_time))]
            ELSE [NewCalculatorTrace EXCEPT
                    !.start_time = Set(LogTime(b, event.event_time))]
      r2 == [r1 EXCEPT !.node_id = Set(event.node_id),
                       !.event_type = Set(event.event_type),
                       !.thread_id = Set(event.thread_id)]
      r3 == IF event.input_ts # TimestampUnset
            THEN [r2 EXCEPT !.input_timestamp =
                    Set(LogTimestamp(b, event.input_ts))]
            ELSE r2
  IN IF kProfilerStreamEvents(event.event_type) /\ event.stream_id # nullptr
     THEN
       Let(StringIdLookup(b.stream_id_map_, event.stream_id), LAMBDA s :
       Let(AddressIdLookup(b.packet_data_id_map_, event.packet_data_id),
           LAMBDA p :
         LET stream_trace == [NewStreamTrace EXCEPT
                                !.stream_id = Set(s.id),
                                !.packet_timestamp =
                                  Set(LogTimestamp(b, event.packet_ts)),
                                !.packet_id = Set(p.id)]
         IN [b |-> [b EXCEPT !.stream_id_map_ = s.map,
                             !.packet_data_id_map_ = p.map],
             trace |-> IF event.is_finish
                       THEN [r3 EXCEPT !.output_trace = <<stream_trace>>]
                       ELSE [r3 EXCEPT !.input_trace = <<stream_trace>>]]))
     ELSE [b |-> b, trace |-> r3]

RECURSIVE IndexLoop(_, _, _, _)
\* The indexing loop of CreateTrace over the events i.. of the snapshot:
\* index TraceEvents by task-id and stream-hop-id.
IndexLoop(b, snapshot, gen, i) ==
  IF i > Len(snapshot) THEN b
  ELSE
    LET event == snapshot[i]
    IN IF ~kProfilerPacketEvents(event.event_type)
       THEN IndexLoop(b, snapshot, gen, i + 1)
       ELSE
         LET task_id == TaskId(event.node_id, event.input_ts, event.event_type)
             list == IF task_id \in DOMAIN b.task_events_
                     THEN b.task_events_[task_id] ELSE <<>>
         IN Let(StringIdLookup(b.stream_id_map_, event.stream_id), LAMBDA s :
              IndexLoop(
                [b EXCEPT
                   !.stream_id_map_ = s.map,
                   !.hop_events_ =
                     IF event.is_finish
                     THEN Put(@, TaskId(s.id, event.packet_ts, event.event_type),
                              PointerTo(gen, i, event))
                     ELSE @,
                   !.task_events_ =
                     Put(@, task_id, Append(list, PointerTo(gen, i, event)))],
                snapshot, gen, i + 1))

RECURSIVE ConstructLoopEveryEvent(_, _, _)
\* ConstructLoop without the task_ids set: a record for every event.
ConstructLoopEveryEvent(acc, i, ctx) ==
  IF i > Len(ctx.snapshot) THEN acc
  ELSE
    LET event == ctx.snapshot[i]
        task_id == TaskId(event.node_id, event.input_ts, event.event_type)
    IN IF ~kProfilerPacketEvents(event.event_type)
       THEN Let(BuildEventLog(acc.b, event), LAMBDA log :
              ConstructLoopEveryEvent(
                [acc EXCEPT !.b = log.b,
                            !.calculator_trace = Append(@, log.trace)],
                i + 1, ctx))
       ELSE Let(BuildCalculatorTrace(acc.b, acc.b.task_events_[task_id], ctx),
                LAMBDA built :
              ConstructLoopEveryEvent(
                [acc EXCEPT !.b = built.b,
                            !.calculator_trace = Append(@, built.trace)],
                i + 1, ctx))

RECURSIVE ConstructLoopSkipIndexed(_, _, _)
\* ConstructLoop that takes a key an earlier call indexed for emitted.
ConstructLoopSkipIndexed(acc, i, ctx) ==
  IF i > Len(ctx.snapshot) THEN acc
  ELSE
    LET event == ctx.snapshot[i]
        task_id == TaskId(event.node_id, event.input_ts, event.event_type)
    IN IF ~kProfilerPacketEvents(event.event_type)
       THEN Let(BuildEventLog(acc.b, event), LAMBDA log :
              ConstructLoopSkipIndexed(
                [acc EXCEPT !.b = log.b,
                            !.calculator_trace = Append(@, log.trace)],
                i + 1, ctx))
       ELSE IF /\ task_id \notin acc.task_ids
               /\ acc.b.task_events_[task_id][1].gen = ctx.gen
       THEN Let(BuildCalculatorTrace(acc.b, acc.b.task_events_[task_id], ctx),
                LAMBDA built :
              ConstructLoopSkipIndexed(
                [acc EXCEPT !.b = built.b,
                            !.calculator_trace = Append(@, built.trace),
                            !.task_ids = @ \cup {task_id}],
                i + 1, ctx))
       ELSE ConstructLoopSkipIndexed(acc, i + 1, ctx)

RECURSIVE ConstructLoop(_, _, _)
\* The loop of CreateTrace that constructs the GraphTrace, over the events i..
\* of the snapshot; acc = [b, calculator_trace, task_ids].
ConstructLoop(acc, i, ctx) ==
  IF i > Len(ctx.snapshot) THEN acc
  ELSE
    LET event == ctx.snapshot[i]
        task_id == TaskId(event.node_id, event.input_ts, event.event_type)
    IN IF ~kProfilerPacketEvents(event.event_type)
       THEN Let(BuildEventLog(acc.b, event), LAMBDA log :
              ConstructLoop(
                [acc EXCEPT !.b = log.b,
                            !.calculator_trace = Append(@, log.trace)],
                i + 1, ctx))
       ELSE IF task_id \notin acc.task_ids
       THEN Let(BuildCalculatorTrace(acc.b, acc.b.task_events_[task_id], ctx),
                LAMBDA built :
              ConstructLoop(
                [acc EXCEPT !.b = built.b,
                            !.calculator_trace = Append(@, built.trace),
                            !.task_ids = @ \cup {task_id}],
                i + 1, ctx))
       ELSE ConstructLoop(acc, i + 1, ctx)

\* GraphTrace.
GraphTrace(base_time, base_timestamp, calculator_trace, stream_name) ==
  [base_time |-> base_time, base_timestamp |-> base_timestamp,
   calculator_trace |-> calculator_trace, stream_name |-> stream_name]

\* TraceBuilder::Impl::CreateTrace as call number gen: the builder after the
\* call and the GraphTrace it fills in.
CreateTraceImpl(b, buf, begin_time, end_time, gen, dangling) ==
  Let(Snapshot(buf, begin_time, end_time), LAMBDA snapshot :
  Let(ConstructLoop(
        [b |-> IndexLoop(SetBaseTime(b, snapshot), snapshot, gen, 1),
         calculator_trace |-> <<>>, task_ids |-> {}],
        1, [gen |-> gen, snapshot |-> snapshot, dangling |-> dangling]),
      LAMBDA acc :
    [b |-> acc.b,
     result |-> GraphTrace(acc.b.base_time_, acc.b.base_ts_,
                           acc.calculator_trace,
                           GetIdNames(acc.b.stream_id_map_))]))

RECURSIVE LogLoop(_, _, _)
\* The loop of CreateLog that logs each TraceEvent, over the events i.. of the
\* snapshot; acc = [b, calculator_trace].
LogLoop(acc, snapshot, i) ==
  IF i > Len(snapshot) THEN acc
  ELSE Let(BuildEventLog(acc.b, snapshot[i]), LAMBDA log :
         LogLoop([b |-> log.b,
                  calculator_trace |-> Append(acc.calculator_trace, log.trace)],
                 snapshot, i + 1))

\* TraceBuilder::Impl::CreateLog.
CreateLogImpl(b, buf, begin_time, end_time) ==
  Let(Snapshot(buf, begin_time, end_time), LAMBDA snapshot :
  Let(LogLoop([b |-> SetBaseTime(b, snapshot), calculator_trace |-> <<>>],
              snapshot, 1),
      LAMBDA acc :
    [b |-> acc.b,
     result |-> GraphTrace(acc.b.base_time_, acc.b.base_ts_,
                           acc.calculator_trace,
                           GetIdNames(acc.b.stream_id_map_))]))

\* Clear that clears the interners too.
ClearImplEverything(b) ==
  [b EXCEPT !.task_events_ = EmptyMap, !.hop_events_ = EmptyMap,
            !.stream_id_map_ = NewStringIdMap,
            !.packet_data_id_map_ = NewAddressIdMap]

\* Clear that leaves the hop index as it is.
ClearImplTaskEventsOnly(b) == [b EXCEPT !.task_events_ = EmptyMap]

\* TraceBuilder::Impl::Clear.
ClearImpl(b) == [b EXCEPT !.task_events_ = EmptyMap, !.hop_events_ = EmptyMap]

RECURSIVE TimestampAfterLoop(_, _, _, _)
\* The loop of TimestampAfter over the events i.. of the buffer.
TimestampAfterLoop(buf, begin_time, max_ts, i) ==
  IF i > Len(buf) THEN max_ts
  ELSE IF buf[i].event_time >= begin_time THEN max_ts
  ELSE TimestampAfterLoop(
         buf, begin_time,
         IF buf[i].input_ts > max_ts THEN buf[i].input_ts ELSE max_ts, i + 1)

\* TraceBuilder::Impl::TimestampAfter.
TimestampAfterImpl(buf, begin_time) ==
  TimestampAfterLoop(buf, begin_time, TimestampMin, 1) + 1

----------------------------------------------------------------------------
(* The state machine.                                                      *)

\* The events the writers log.
OpenStart ==
  TraceEvent(OPEN, 1, 0, FALSE, 100, nullptr, TimestampUnset, nullptr, 0)
OpenFinish == TraceEvent(OPEN, 1, 0, TRUE, 105, "&s1a", 0, "&p1", 0)
InputStart == TraceEvent(OPEN, 2, 0, FALSE, 110, "&s1b", 0, "&p1", 1)
InputFinish == TraceEvent(OPEN, 2, 0, TRUE, 110, "&s1b", 0, "&p1", 1)
NotReady ==
  TraceEvent(NOT_READY, 2, TimestampUnset, FALSE, 95, nullptr,
             TimestampUnset, nullptr, 0)
GpuStart == TraceEvent(GPU_TASK, 1, 1, FALSE, 95, "&s2", 1, "&p2", 0)
GpuFinish == TraceEvent(GPU_TASK, 1, 1, TRUE, 110, "&s2", 1, "&p2", 1)
ProcessStart == TraceEvent(PROCESS, 2, 1, FALSE, 115, "&s2", 1, "&p2", 1)
EventSet ==
  {OpenStart, OpenFinish, InputStart, InputFinish, NotReady, GpuStart,
   GpuFinish, ProcessStart}

\* The begin and end times of the windows the callers ask for.
WindowTimes == {0, 110, 200}

\* An event that no writer logs: what memory that was overwritten holds.
Overwritten == TraceEvent(PROCESS, 3, 1, TRUE, 120, "&s2", 1, "&p2", 2)

\* What a read through a dangling pointer may yield during one call.
DanglingOutcomes ==
  {[kind |-> k, event |-> Overwritten] : k \in {"stale", "reused", "other"}}

\* A buffer end that is read anew at every step of the iteration.
BufferEndLive(captured, buf) == Len(buf)

\* buffer.end() as the call captures it before it iterates (buffer_end); buf
\* is the buffer as the iteration finds it, with what the writers appended
\* since.
BufferEnd(captured, buf) == Len(captured)

\* The events that the iteration from buffer.begin() up to buffer_end reads.
Iterated(captured, buf) == SubSeq(buf, 1, BufferEnd(captured, buf))

\* What the writers may append while one call runs: nothing, or one event.
LateEvents == {OpenFinish, ProcessStart}
ConcurrentAppends ==
  {<<>>} \cup
    (IF Len(buffer) < MaxBuffer THEN {<<event>> : event \in LateEvents}
     ELSE {})

\* The builder made of the variables.
Builder ==
  [task_events_ |-> task_events_, hop_events_ |-> hop_events_,
   stream_id_map_ |-> stream_id_map_,
   packet_data_id_map_ |-> packet_data_id_map_,
   base_ts_ |-> base_ts_, base_time_ |-> base_time_]

\* The variables become the builder b.
BuilderBecomes(b) ==
  /\ task_events_' = b.task_events_
  /\ hop_events_' = b.hop_events_
  /\ stream_id_map_' = b.stream_id_map_
  /\ packet_data_id_map_' = b.packet_data_id_map_
  /\ base_ts_' = b.base_ts_
  /\ base_time_' = b.base_time_

builder_vars == <<task_events_, hop_events_, stream_id_map_,
                  packet_data_id_map_, base_ts_, base_time_>>

\* A call as the history records it.
Call(op, begin_time, end_time, snapshot, result) ==
  [op |-> op, begin_time |-> begin_time, end_time |-> end_time,
   buffer_size |-> Len(buffer), snapshot |-> snapshot, result |-> result]

\* The number of CreateTrace and CreateLog calls made so far.
Calls == Len(SelectSeq(history, LAMBDA c : c.op # "Clear"))

Init ==
  /\ buffer = <<>>
  /\ task_events_ = EmptyMap
  /\ hop_events_ = EmptyMap
  /\ stream_id_map_ = ImplStreamIdMap
  /\ packet_data_id_map_ = ImplPacketDataIdMap
  /\ base_ts_ = Int64Max
  /\ base_time_ = Int64Max
  /\ history = <<>>
  /\ max_ts_after = NotSet

\* A writer appends an event to the buffer, while the builder has calls left
\* to observe it.
AppendEvent ==
  /\ Len(buffer) < MaxBuffer
  /\ Calls < MaxCalls
  /\ \E event \in EventSet : buffer' = Append(buffer, event)
  /\ max_ts_after' = NotSet
  /\ UNCHANGED <<builder_vars, history>>

CreateTrace ==
  /\ Calls < MaxCalls
  /\ \E begin_time \in WindowTimes, end_time \in WindowTimes,
        dangling \in DanglingOutcomes, appended \in ConcurrentAppends :
       /\ begin_time < end_time
       /\ buffer' = buffer \o appended
       /\ Let(CreateTraceImpl(Builder, Iterated(buffer, buffer \o appended),
                              begin_time, end_time, Calls + 1, dangling),
              LAMBDA call :
                /\ BuilderBecomes(call.b)
                /\ history' = Append(history,
                     Call("CreateTrace", begin_time, end_time,
                          Snapshot(Iterated(buffer, buffer \o appended),
                                   begin_time, end_time),
                          call.result)))
  /\ max_ts_after' = NotSet

CreateLog ==
  /\ Calls < MaxCalls
  /\ \E begin_time \in WindowTimes, end_time \in WindowTimes,
        appended \in ConcurrentAppends :
       /\ begin_time < end_time
       /\ buffer' = buffer \o appended
       /\ Let(CreateLogImpl(Builder, Iterated(buffer, buffer \o appended),
                            begin_time, end_time),
              LAMBDA call :
                /\ BuilderBecomes(call.b)
                /\ history' = Append(history,
                     Call("CreateLog", begin_time, end_time,
                          Snapshot(Iterated(buffer, buffer \o appended),
                                   begin_time, end_time),
                          call.result)))
  /\ max_ts_after' = NotSet

\* The history records a Clear that found an index to empty.
Clear ==
  /\ BuilderBecomes(ClearImpl(Builder))
  /\ history' =
       IF task_events_ = EmptyMap /\ hop_events_ = EmptyMap THEN history
       ELSE Append(history,
              [op |-> "Clear", begin_time |-> 0, end_time |-> 0,
               buffer_size |-> 0, snapshot |-> <<>>,
               result |-> GraphTrace(0, 0, <<>>, <<>>)])
  /\ max_ts_after' = NotSet
  /\ UNCHANGED buffer

\* The caller asks where its next window starts, while it has calls left.
TimestampAfter ==
  /\ Calls < MaxCalls
  /\ \E begin_time \in WindowTimes :
       max_ts_after' = Set(<<begin_time, TimestampAfterImpl(buffer, begin_time)>>)
  /\ UNCHANGED <<buffer, builder_vars, history>>

Next == AppendEvent \/ CreateTrace \/ CreateLog \/ Clear \/ TimestampAfter

Spec == Init /\ [][Next]_vars

----------------------------------------------------------------------------
(* What the claims speak of.                                               *)

\* The entries of the history that are CreateTrace or CreateLog calls.
CallsOf(op) == {i \in 1..Len(history) : history[i].op = op}
BuildCalls == CallsOf("CreateTrace") \cup CallsOf("CreateLog")

\* The InvocationKey of an event.
TaskIdOf(event) == TaskId(event.node_id, event.input_ts, event.event_type)

\* Two events have the same TransferKey: streams of equal content (or both
\* null), the same packet_ts and the same event kind.
SameStream(e1, e2) ==
  IF e1.stream_id = nullptr \/ e2.stream_id = nullptr
  THEN e1.stream_id = e2.stream_id
  ELSE StringContent(e1.stream_id) = StringContent(e2.stream_id)
SameHop(e1, e2) ==
  /\ SameStream(e1, e2)
  /\ e1.packet_ts = e2.packet_ts
  /\ e1.event_type = e2.event_type

\* The id the interner holds for the stream of an event.
StreamIdOf(event) ==
  IF event.stream_id = nullptr THEN 0
  ELSE stream_id_map_.string_id_map_[StringContent(event.stream_id)]

\* The position in the snapshot of the first event with the key of event j.
FirstOfKey(snapshot, j) ==
  CHOOSE k \in 1..j :
    /\ TaskIdOf(snapshot[k]) = TaskIdOf(snapshot[j])
    /\ \A l \in 1..(k - 1) : TaskIdOf(snapshot[l]) # TaskIdOf(snapshot[j])

\* Event k of the snapshot makes CreateTrace add a record: it carries no
\* packet detail, or it is the first event of its key.
AddsRecord(snapshot, k) ==
  \/ ~kProfilerPacketEvents(snapshot[k].event_type)
  \/ FirstOfKey(snapshot, k) = k

\* The record of the aggregated trace of call c that event j of the snapshot
\* belongs to.
RecordOf(c, j) ==
  LET at == IF kProfilerPacketEvents(c.snapshot[j].event_type)
            THEN FirstOfKey(c.snapshot, j) ELSE j
  IN c.result.calculator_trace[
       Cardinality({k \in 1..at : AddsRecord(c.snapshot, k)})]

\* The transfers of a record.
Transfers(record) ==
  {record.input_trace[n] : n \in 1..Len(record.input_trace)}
    \cup {record.output_trace[n] : n \in 1..Len(record.output_trace)}

\* In call c, producer p and consumer q of the snapshot are packet events of
\* a stream-hop kind with one TransferKey, and p is a finish event.
ProducerConsumer(c, p, q) ==
  /\ p # q
  /\ kProfilerStreamEvents(c.snapshot[p].event_type)
  /\ c.snapshot[p].is_finish
  /\ SameHop(c.snapshot[p], c.snapshot[q])

\* A transfer from producer event prod to consumer event cons, as the claim
\* C1 gives its times.
CorrelatedTransfer(c, prod, cons, t) ==
  /\ t.stream_id = Set(StreamIdOf(cons))
  /\ t.packet_timestamp = Set(Wrap(cons.packet_ts - c.result.base_timestamp))
  /\ t.start_time = Set(Wrap(prod.event_time - c.result.base_time))
  /\ t.finish_time = Set(Wrap(cons.event_time - c.result.base_time))

\* C1 as stated: in every CreateTrace call, for a producer finish event at t0
\* and a consumer finish event with the same (stream, packet_ts, kind) at
\* t1 > t0, the record of the consumer holds a transfer with
\* start_time = t0 - base_time and finish_time = t1 - base_time.
C1_FinishConsumerCorrelated ==
  \A i \in CallsOf("CreateTrace") :
    \A p, q \in 1..Len(history[i].snapshot) :
      LET c == history[i]
      IN (/\ ProducerConsumer(c, p, q)
          /\ c.snapshot[q].is_finish
          /\ c.snapshot[q].event_time > c.snapshot[p].event_time)
         => \E t \in Transfers(RecordOf(c, q)) :
              CorrelatedTransfer(c, c.snapshot[p], c.snapshot[q], t)

\* Producer p is the finish event of its TransferKey that call c indexed last.
LastProducer(c, p) ==
  \A k \in (p + 1)..Len(c.snapshot) :
    ~(/\ kProfilerPacketEvents(c.snapshot[k].event_type)
      /\ c.snapshot[k].is_finish
      /\ SameHop(c.snapshot[k], c.snapshot[p]))

\* C1 (amended): in every CreateTrace call, for a producer finish event at t0
\* that is the last finish event of its (stream, packet_ts, kind) in the
\* snapshot, and a consumer START-side event of the snapshot with the same
\* (stream, packet_ts, kind) at t1, the record of the consumer holds an input
\* transfer with start_time = t0 - base_time and finish_time = t1 - base_time.
C1_StartConsumerCorrelated ==
  \A i \in CallsOf("CreateTrace") :
    \A p, q \in 1..Len(history[i].snapshot) :
      LET c == history[i]
      IN (/\ ProducerConsumer(c, p, q)
          /\ LastProducer(c, p)
          /\ ~c.snapshot[q].is_finish)
         => \E n \in 1..Len(RecordOf(c, q).input_trace) :
              CorrelatedTransfer(c, c.snapshot[p], c.snapshot[q],
                                 RecordOf(c, q).input_trace[n])

\* C1 witness: a CreateTrace call whose snapshot holds a producer finish event
\* and, at a later time, a consumer start event of the same TransferKey.
C1_Witness ==
  \E i \in CallsOf("CreateTrace") :
    \E p, q \in 1..Len(history[i].snapshot) :
      LET c == history[i]
      IN /\ ProducerConsumer(c, p, q)
         /\ LastProducer(c, p)
         /\ ~c.snapshot[q].is_finish
         /\ c.snapshot[q].event_time > c.snapshot[p].event_time
         /\ c.snapshot[q].stream_id # c.snapshot[p].stream_id

\* The first call on a fresh builder is CreateTrace over [0, 200) and the
\* buffer holds the two OPEN events of the scenario.
OpenScenario ==
  /\ history # <<>>
  /\ history[1].op = "CreateTrace"
  /\ history[1].begin_time = 0
  /\ history[1].end_time = 200
  /\ history[1].buffer_size = 2
  /\ history[1].snapshot = <<OpenStart, OpenFinish>>

OneKey(c) ==
  /\ c.snapshot # <<>>
  /\ \A k \in 1..Len(c.snapshot) :
       /\ kProfilerPacketEvents(c.snapshot[k].event_type)
       /\ TaskIdOf(c.snapshot[k]) = TaskIdOf(c.snapshot[1])

\* C3: a snapshot of N >= 1 events of a packet-detail kind that share one
\* InvocationKey yields exactly one record in CreateTrace and exactly N records
\* in CreateLog.
C3_Grouping ==
  /\ \A i \in CallsOf("CreateTrace") :
       OneKey(history[i]) => Len(history[i].result.calculator_trace) = 1
  /\ \A i \in CallsOf("CreateLog") :
       OneKey(history[i]) =>
         Len(history[i].result.calculator_trace) = Len(history[i].snapshot)

\* C3 witness: a CreateTrace call and a CreateLog call, each over a snapshot
\* of MaxBuffer events of one key, not all the same event.
C3_Witness ==
  \E i \in CallsOf("CreateTrace"), j \in CallsOf("CreateLog") :
    /\ OneKey(history[i]) /\ OneKey(history[j])
    /\ Len(history[i].snapshot) = MaxBuffer
    /\ Len(history[j].snapshot) = MaxBuffer
    /\ history[i].snapshot[1] # history[i].snapshot[2]

\* The least element of a non-empty set of integers.
Least(S) == CHOOSE x \in S : \A y \in S : x <= y

\* The event times, and the timestamps that are no special value, of the
\* snapshot of call c.
EventTimes(c) == {c.snapshot[k].event_time : k \in 1..Len(c.snapshot)}
Timestamps(c) ==
  {ts \in {c.snapshot[k].input_ts : k \in 1..Len(c.snapshot)}
            \cup {c.snapshot[k].packet_ts : k \in 1..Len(c.snapshot)} :
     ~IsSpecialValue(ts)}

\* C4: once the first CreateTrace or CreateLog call has completed, both bases
\* are set and keep their values through every later CreateTrace, CreateLog
\* and Clear: the trace of every call made so far carries the bases the
\* builder holds now.
C4_TimeBaseFixed ==
  \A i \in BuildCalls :
    /\ base_time_ # Int64Max
    /\ base_ts_ # Int64Max
    /\ history[i].result.base_time = base_time_
    /\ history[i].result.base_timestamp = base_ts_

\* C4 witness: after a first call over a non-empty snapshot and a Clear, a
\* later call saw an event earlier than the base time and a timestamp below
\* the base timestamp.
C4_Witness ==
  \E i, j, k \in 1..Len(history) :
    /\ i < j /\ j < k
    /\ i \in BuildCalls /\ k \in BuildCalls
    /\ history[j].op = "Clear"
    /\ history[i].snapshot # <<>>
    /\ \E t \in EventTimes(history[k]) : t < history[i].result.base_time
    /\ \E ts \in Timestamps(history[k]) : ts < history[i].result.base_timestamp

\* The bases are those of the snapshot of call c: its least event time and
\* its least timestamp that is no special value, 0 where it has none.
BasesOf(c) ==
  /\ base_time_ = IF EventTimes(c) = {} THEN 0 ELSE Least(EventTimes(c))
  /\ base_ts_ = IF Timestamps(c) = {} THEN 0 ELSE Least(Timestamps(c))

\* In the trace of call c, the time that event k of the snapshot sets (the
\* finish_time of its record if it is a finish event, else the start_time)
\* is set and is at most the time of the event relative to the base.
RelativeTimeAtMost(c, k) ==
  LET event == c.snapshot[k]
      record == IF c.op = "CreateLog" THEN c.result.calculator_trace[k]
                ELSE RecordOf(c, k)
      time == IF event.is_finish THEN record.finish_time
              ELSE record.start_time
  IN /\ time # NotSet
     /\ time[1] <= event.event_time - base_time_
     /\ c.op = "CreateLog" => time[1] = event.event_time - base_time_

\* C5 as stated: the bases are those of the first call with a non-empty
\* snapshot, also when earlier calls had empty snapshots.
C5_FirstNonEmptyCallBase ==
  LET nonEmpty == {i \in BuildCalls : history[i].snapshot # <<>>}
  IN nonEmpty # {} => BasesOf(history[Least(nonEmpty)])

\* C5 (amended): the bases are those of the FIRST call: the least event time
\* and least non-special timestamp of its snapshot if it is non-empty, and 0
\* if it is empty (or holds no such timestamp), whatever later calls hold; a
\* later call with events before the base time leaves the base as it is, and
\* the relative times of these events in its trace are negative.
C5_FirstCallBase ==
  history # <<>> =>
    /\ BasesOf(history[1])
    /\ \A i \in BuildCalls : \A k \in 1..Len(history[i].snapshot) :
         history[i].snapshot[k].event_time < base_time_ =>
           /\ RelativeTimeAtMost(history[i], k)
           /\ history[i].snapshot[k].event_time - base_time_ < 0

\* C5 witness: the first call had a non-empty snapshot and a later call
\* saw an event before the base time.
C5_Witness ==
  /\ history # <<>>
  /\ history[1].snapshot # <<>>
  /\ base_time_ > 0
  /\ \E i \in BuildCalls :
       /\ i > 1
       /\ \E t \in EventTimes(history[i]) : t < base_time_

\* C6: two CreateLog calls with the same [begin, end) and no write to the
\* buffer (and no other build call) between them return identical traces,
\* also when the first of them is the first call on the builder.
C6_IdempotentLog ==
  \A i, j \in CallsOf("CreateLog") :
    (/\ i < j
     /\ \A k \in (i + 1)..(j - 1) : history[k].op = "Clear"
     /\ history[i].begin_time = history[j].begin_time
     /\ history[i].end_time = history[j].end_time
     /\ history[i].buffer_size = history[j].buffer_size)
    => history[i].result = history[j].result

\* C6 witness: the first two calls are CreateLog calls over one window of an
\* unchanged buffer, and their trace has a record with a transfer.
C6_Witness ==
  /\ Len(history) >= 2
  /\ history[1].op = "CreateLog" /\ history[2].op = "CreateLog"
  /\ history[1].begin_time = history[2].begin_time
  /\ history[1].end_time = history[2].end_time
  /\ history[1].buffer_size = history[2].buffer_size
  /\ Len(history[1].snapshot) >= 2
  /\ \E n \in 1..Len(history[2].result.calculator_trace) :
       Transfers(history[2].result.calculator_trace[n]) # {}

\* The std::string objects events point to.
StreamPointers == {event.stream_id : event \in EventSet} \ {nullptr}

\* C7: keys of equal content have the same id, through the pointer cache as
\* well as through the content map, for the same pointer or different ones
\* and in any order of lookups; and the id of a content never changes: the
\* names of the table of every earlier trace still have the id they had.
C7_InternerStable ==
  /\ \A p \in DOMAIN stream_id_map_.pointer_id_map_ :
       /\ StringContent(p) \in DOMAIN stream_id_map_.string_id_map_
       /\ stream_id_map_.pointer_id_map_[p] =
            stream_id_map_.string_id_map_[StringContent(p)]
  /\ \A p, q \in StreamPointers :
       StringContent(p) = StringContent(q) =>
         Let(StringIdLookup(stream_id_map_, p), LAMBDA first :
           StringIdLookup(first.map, q).id = first.id)
  /\ \A i \in BuildCalls : \A id \in DOMAIN history[i].result.stream_name :
       /\ history[i].result.stream_name[id]
            \in DOMAIN stream_id_map_.string_id_map_
       /\ stream_id_map_.string_id_map_[history[i].result.stream_name[id]] = id

\* C7 witness: both objects that hold "s1" have been looked up, the second
\* after a Clear.
C7_Witness ==
  /\ {"&s1a", "&s1b"} \subseteq DOMAIN stream_id_map_.pointer_id_map_
  /\ \E i, j, k \in 1..Len(history) :
       /\ i < j /\ j < k
       /\ history[j].op = "Clear"
       /\ 1 \in DOMAIN history[i].result.stream_name
       /\ 2 \in DOMAIN history[k].result.stream_name

\* The ids the interners hold for the keys that are not the zero keys.
RealStreamIds ==
  {stream_id_map_.string_id_map_[c] :
     c \in DOMAIN stream_id_map_.string_id_map_ \ {""}}
RealPacketIds ==
  {packet_data_id_map_.pointer_id_map_[a] :
     a \in DOMAIN packet_data_id_map_.pointer_id_map_ \ {nullptr}}

C9_NoTransferOfStreamZero ==
  \A i \in BuildCalls :
    \A n \in 1..Len(history[i].result.calculator_trace) :
      \A t \in Transfers(history[i].result.calculator_trace[n]) :
        t.stream_id # Set(0)

\* A step is a Clear that found an index to empty.
ClearStep ==
  /\ Len(history') = Len(history) + 1
  /\ history'[Len(history')].op = "Clear"

\* C10: Clear empties both indices and leaves the interners, the bases (and
\* the buffer) as they are; no other step takes an entry out of an index or a
\* key out of an interner.
C10_ClearFrame ==
  [][/\ ClearStep =>
          /\ task_events_' = EmptyMap
          /\ hop_events_' = EmptyMap
          /\ UNCHANGED <<stream_id_map_, packet_data_id_map_, base_ts_,
                         base_time_, buffer>>
     /\ ~ClearStep =>
          /\ DOMAIN task_events_ \subseteq DOMAIN task_events_'
          /\ DOMAIN hop_events_ \subseteq DOMAIN hop_events_'
          /\ DOMAIN stream_id_map_.pointer_id_map_
               \subseteq DOMAIN stream_id_map_'.pointer_id_map_
          /\ DOMAIN stream_id_map_.string_id_map_
               \subseteq DOMAIN stream_id_map_'.string_id_map_
          /\ DOMAIN packet_data_id_map_.pointer_id_map_
               \subseteq DOMAIN packet_data_id_map_'.pointer_id_map_
          /\ stream_id_map_.next_id <= stream_id_map_'.next_id
          /\ packet_data_id_map_.next_id <= packet_data_id_map_'.next_id]_vars

\* C10 witness: a Clear has emptied indices that held entries, and the
\* interners hold stream names and packet addresses and the bases are set.
C10_Witness ==
  /\ history # <<>>
  /\ history[Len(history)].op = "Clear"
  /\ task_events_ = EmptyMap /\ hop_events_ = EmptyMap
  /\ RealStreamIds # {} /\ RealPacketIds # {}
  /\ base_time_ \notin {0, Int64Max}

\* The CreateTrace calls before call i whose index entries call i finds: no
\* Clear came between.
IndexedBy(i) ==
  {j \in CallsOf("CreateTrace") :
     j < i /\ \A k \in (j + 1)..(i - 1) : history[k].op # "Clear"}

\* The positions of the packet-detail events of a snapshot, and their keys.
PacketEvents(snapshot) ==
  {k \in 1..Len(snapshot) : kProfilerPacketEvents(snapshot[k].event_type)}
PacketKeys(snapshot) == {TaskIdOf(snapshot[k]) : k \in PacketEvents(snapshot)}

\* An earlier call left events of the key in the index that call i finds.
KeyIndexedBefore(i, key) ==
  \E j \in IndexedBy(i) : key \in PacketKeys(history[j].snapshot)

\* C11: every CreateTrace call emits one record per event without packet
\* detail and exactly one record per distinct InvocationKey of the
\* packet-detail events of its snapshot, each at the position of the first
\* occurrence in snapshot order, and no record for a key that the snapshot
\* does not hold, whatever the index holds from earlier calls.
C11_PerCallEmission ==
  \A i \in CallsOf("CreateTrace") :
    LET c == history[i]
    IN /\ Len(c.result.calculator_trace) =
            Len(c.snapshot) - Cardinality(PacketEvents(c.snapshot))
              + Cardinality(PacketKeys(c.snapshot))
       /\ \A k \in 1..Len(c.snapshot) :
            IF k \notin PacketEvents(c.snapshot)
            THEN /\ RecordOf(c, k).node_id = Set(c.snapshot[k].node_id)
                 /\ RecordOf(c, k).event_type = Set(c.snapshot[k].event_type)
            ELSE ~KeyIndexedBefore(i, TaskIdOf(c.snapshot[k])) =>
                   /\ RecordOf(c, k).node_id = Set(c.snapshot[k].node_id)
                   /\ RecordOf(c, k).event_type =
                        Set(c.snapshot[k].event_type)
                   /\ RecordOf(c, k).input_timestamp =
                        Set(Wrap(c.snapshot[k].input_ts
                                   - c.result.base_timestamp))

\* C11 witness: two CreateTrace calls over disjoint windows with no Clear
\* between; a key of the first snapshot is absent from the second, and
\* another key of the first snapshot recurs in the second.
C11_Witness ==
  \E j \in CallsOf("CreateTrace") : \E i \in IndexedBy(j) :
    /\ history[i].end_time <= history[j].begin_time
    /\ PacketKeys(history[i].snapshot) \ PacketKeys(history[j].snapshot) # {}
    /\ PacketKeys(history[i].snapshot) \cap PacketKeys(history[j].snapshot)
         # {}
    /\ Len(history[j].result.calculator_trace) = 1

\* Call i or a call before it with no Clear between indexed a finish-side
\* packet-detail event with the TransferKey of the event.
HopIndexed(i, event) ==
  \E j \in IndexedBy(i) \cup {i} :
    \E p \in PacketEvents(history[j].snapshot) :
      /\ history[j].snapshot[p].is_finish
      /\ SameHop(history[j].snapshot[p], event)

\* Event q of the snapshot of CreateTrace call i is a consumer: a start-side
\* event of a stream-hop kind, of a key that no earlier call left in the
\* index (so the record of the key holds the events of this call alone).
Consumer(i, q) ==
  /\ q \in PacketEvents(history[i].snapshot)
  /\ kProfilerStreamEvents(history[i].snapshot[q].event_type)
  /\ ~history[i].snapshot[q].is_finish
  /\ ~KeyIndexedBefore(i, TaskIdOf(history[i].snapshot[q]))

\* The place of consumer q among the input transfers of its record.
InputIndex(snapshot, q) ==
  Cardinality({k \in 1..q : /\ TaskIdOf(snapshot[k]) = TaskIdOf(snapshot[q])
                            /\ ~snapshot[k].is_finish})

\* The transfer that call c emits for consumer q.
InputTransferOf(c, q) ==
  RecordOf(c, q).input_trace[InputIndex(c.snapshot, q)]

\* C12: in every CreateTrace call the transfer of a consumer is emitted with
\* stream_id, packet_timestamp, finish_time and packet_id, and its start_time
\* is set exactly if a finish-side event of the same TransferKey was indexed
\* by this call or by an earlier call since the last Clear; a producer that
\* was indexed before a Clear is not resolved.
C12_MissingProducerOmitted ==
  \A i \in CallsOf("CreateTrace") : \A q \in 1..Len(history[i].snapshot) :
    Consumer(i, q) =>
      LET c == history[i]
          event == c.snapshot[q]
      IN /\ InputIndex(c.snapshot, q) <= Len(RecordOf(c, q).input_trace)
         /\ InputTransferOf(c, q).stream_id = Set(StreamIdOf(event))
         /\ InputTransferOf(c, q).packet_timestamp =
              Set(Wrap(event.packet_ts - c.result.base_timestamp))
         /\ InputTransferOf(c, q).finish_time =
              Set(Wrap(event.event_time - c.result.base_time))
         /\ InputTransferOf(c, q).packet_id # NotSet
         /\ InputTransferOf(c, q).start_time # NotSet <=> HopIndexed(i, event)

\* C12 witness: a CreateTrace call indexed the producer of a stream, a Clear
\* followed, and a later CreateTrace call whose snapshot holds a consumer of
\* the stream but not the producer emitted the transfer without start_time.
C12_Witness ==
  \E i, j \in CallsOf("CreateTrace") : \E q \in 1..Len(history[i].snapshot) :
    /\ j < i
    /\ j \notin IndexedBy(i)
    /\ Consumer(i, q)
    /\ history[i].snapshot[q].stream_id # nullptr
    /\ \E p \in PacketEvents(history[j].snapshot) :
         /\ history[j].snapshot[p].is_finish
         /\ SameHop(history[j].snapshot[p], history[i].snapshot[q])
    /\ ~HopIndexed(i, history[i].snapshot[q])
    /\ InputTransferOf(history[i], q).start_time = NotSet
    /\ InputTransferOf(history[i], q).finish_time # NotSet

\* The events of the window of call c among those the buffer held when the
\* call captured its end, in buffer order. (The buffer is only appended to,
\* so these are the first buffer_size events of the buffer of any later
\* state.)
WindowOf(c, buf) ==
  SelectSeq(SubSeq(buf, 1, c.buffer_size), LAMBDA event :
    event.event_time >= c.begin_time /\ event.event_time < c.end_time)

\* C13: the snapshot of every CreateTrace and CreateLog call holds exactly the
\* events with begin_time <= event_time < end_time that the buffer held when
\* the call captured its end, in buffer order and by value; an event that a
\* writer appended while the call ran is not in it (CreateLog emits one
\* record per event of this snapshot, which shows it to the caller); and a
\* step of a call leaves the events of the buffer as they were.
C13_SnapshotUnderAppends ==
  [][/\ \A i \in 1..Len(history') :
          history'[i].op # "Clear" =>
            /\ history'[i].snapshot = WindowOf(history'[i], buffer')
            /\ history'[i].op = "CreateLog" =>
                 /\ Len(history'[i].result.calculator_trace) =
                      Len(WindowOf(history'[i], buffer'))
                 /\ \A k \in 1..Len(history'[i].snapshot) :
                      history'[i].result.calculator_trace[k].thread_id =
                        Set(WindowOf(history'[i], buffer')[k].thread_id)
     /\ Len(buffer') >= Len(buffer)
     /\ SubSeq(buffer', 1, Len(buffer)) = buffer]_vars

\* C13 witness: while a CreateTrace call and a CreateLog call ran, a writer
\* appended an event, and every event of the buffer lies in the windows of
\* both calls.
C13_Witness ==
  \E i \in CallsOf("CreateTrace"), j \in CallsOf("CreateLog") :
    /\ i < j
    /\ history[i].buffer_size < history[j].buffer_size
    /\ history[j].buffer_size < Len(buffer)
    /\ history[i].snapshot # <<>>
    /\ \A k \in 1..Len(buffer) :
         /\ buffer[k].event_time >= history[i].begin_time
         /\ buffer[k].event_time < history[i].end_time
         /\ buffer[k].event_time >= history[j].begin_time
         /\ buffer[k].event_time < history[j].end_time

\* The positions of the buffer events whose event_time is before begin_time.
EventsBefore(begin_time) ==
  {k \in 1..Len(buffer) : buffer[k].event_time < begin_time}

\* The greatest element of a non-empty set of integers.
Greatest(S) == CHOOSE x \in S : \A y \in S : x >= y

\* C14 as stated: the result of TimestampAfter(buffer, begin_time) is one more
\* than the largest input_ts among all buffer events whose event_time is
\* before begin_time, so that none of these events has an input_ts greater
\* than or equal to the result.
C14_AfterAllEarlierEvents ==
  max_ts_after # NotSet =>
    LET begin_time == max_ts_after[1][1]
        result == max_ts_after[1][2]
    IN EventsBefore(begin_time) # {} =>
         /\ result =
              Greatest({buffer[k].input_ts : k \in EventsBefore(begin_time)})
                + 1
         /\ \A k \in EventsBefore(begin_time) : buffer[k].input_ts < result

\* The name of the stream of an event; the reserved empty name stands for no
\* stream.
NameOf(event) ==
  IF event.stream_id = nullptr THEN "" ELSE StringContent(event.stream_id)

\* The place of finish-side event q among the output transfers of its record.
OutputIndex(snapshot, q) ==
  Cardinality({k \in 1..q : /\ TaskIdOf(snapshot[k]) = TaskIdOf(snapshot[q])
                            /\ snapshot[k].is_finish})

\* The transfer that CreateTrace call c builds from event q of its snapshot,
\* an event of a stream-hop kind whose key no earlier call left in the index.
TransferOf(c, q) ==
  IF c.snapshot[q].is_finish
  THEN RecordOf(c, q).output_trace[OutputIndex(c.snapshot, q)]
  ELSE RecordOf(c, q).input_trace[InputIndex(c.snapshot, q)]

\* The transfer of record k of CreateLog call c.
LoggedTransfer(c, k) ==
  IF c.snapshot[k].is_finish
  THEN c.result.calculator_trace[k].output_trace[1]
  ELSE c.result.calculator_trace[k].input_trace[1]

\* The last CreateTrace or CreateLog call made.
LastBuildCall == Greatest(BuildCalls)

\* C15: in the trace of every CreateTrace and CreateLog call, the stream_id
\* of every transfer is an index of the stream-name table, and the entry is
\* the name of the stream of the event that the transfer was built from; the
\* table has no gaps and one entry per interned name (entry 0 is the
\* reserved empty name), holds every name the interner holds when the call
\* returns, and keeps the entries of the tables of earlier calls.
C15_StreamNameTable ==
  \A i \in BuildCalls :
    LET c == history[i]
        table == c.result.stream_name
    IN /\ DOMAIN table = 0..(Cardinality(DOMAIN table) - 1)
       /\ 0 \in DOMAIN table
       /\ table[0] = ""
       /\ \A id1, id2 \in DOMAIN table : id1 # id2 => table[id1] # table[id2]
       /\ \A n \in 1..Len(c.result.calculator_trace) :
            \A t \in Transfers(c.result.calculator_trace[n]) :
              /\ t.stream_id # NotSet
              /\ t.stream_id[1] \in DOMAIN table
       /\ \A q \in 1..Len(c.snapshot) :
            kProfilerStreamEvents(c.snapshot[q].event_type) =>
              IF c.op = "CreateLog"
              THEN c.snapshot[q].stream_id # nullptr =>
                     table[LoggedTransfer(c, q).stream_id[1]]
                       = NameOf(c.snapshot[q])
              ELSE ~KeyIndexedBefore(i, TaskIdOf(c.snapshot[q])) =>
                     table[TransferOf(c, q).stream_id[1]]
                       = NameOf(c.snapshot[q])
       /\ \A j \in BuildCalls :
            j < i =>
              \A id \in DOMAIN history[j].result.stream_name :
                /\ id \in DOMAIN table
                /\ table[id] = history[j].result.stream_name[id]
       /\ i = LastBuildCall =>
            /\ Cardinality(DOMAIN table) =
                 Cardinality(DOMAIN stream_id_map_.string_id_map_)
            /\ \A name \in DOMAIN stream_id_map_.string_id_map_ :
                 table[stream_id_map_.string_id_map_[name]] = name

\* C15 witness: a trace with a table of three entries and transfers of the
\* streams 1 and 2, after an earlier trace with a table of two entries.
C15_Witness ==
  \E i, j \in BuildCalls :
    /\ j < i
    /\ DOMAIN history[j].result.stream_name = 0..1
    /\ DOMAIN history[i].result.stream_name = 0..2
    /\ \A id \in {1, 2} :
         \E n \in 1..Len(history[i].result.calculator_trace) :
           \E t \in Transfers(history[i].result.calculator_trace[n]) :
             t.stream_id = Set(id)

\* C16: a CreateTrace or CreateLog call whose window selects no event returns
\* a trace with zero records; if it is the first call on the builder, both
\* bases are 0 in the trace and in the builder from then on, not the maximum
\* value.
C16_EmptySnapshot ==
  \A i \in BuildCalls :
    history[i].snapshot = <<>> =>
      /\ history[i].result.calculator_trace = <<>>
      /\ i = 1 =>
           /\ history[i].result.base_time = 0
           /\ history[i].result.base_timestamp = 0
           /\ base_time_ = 0
           /\ base_ts_ = 0

\* C16 witness: the first call on the builder found events in the buffer but
\* none in its window, and a later call selected events.
C16_Witness ==
  /\ Len(history) >= 2
  /\ history[1].snapshot = <<>>
  /\ history[1].buffer_size > 0
  /\ history[1].result.calculator_trace = <<>>
  /\ history[2].snapshot # <<>>
  /\ base_time_ = 0

RECURSIVE IndexedEvents(_, _, _)
\* The events of the key that the calls j..i indexed for call i, in the order
\* they were indexed: those of the CreateTrace calls since the last Clear
\* before call i, then those of call i.
IndexedEvents(i, key, j) ==
  IF j > i THEN <<>>
  ELSE (IF j \in IndexedBy(i) \cup {i}
        THEN SelectSeq(history[j].snapshot, LAMBDA event :
               /\ kProfilerPacketEvents(event.event_type)
               /\ TaskIdOf(event) = key)
        ELSE <<>>) \o IndexedEvents(i, key, j + 1)

\* The transfer is the one of the event, as far as the event alone fixes it.
TransferIsOf(c, t, event) ==
  /\ t.stream_id = Set(StreamIdOf(event))
  /\ t.packet_timestamp = Set(Wrap(event.packet_ts - c.result.base_timestamp))
  /\ ~event.is_finish =>
       t.finish_time = Set(Wrap(event.event_time - c.result.base_time))

\* C17 as stated: the record that a CreateTrace call builds for a key holds
\* the transfers of all events indexed under the key since the last Clear,
\* those of earlier calls first and then those of the current call: the
\* start-side events in the input list and the finish-side events in the
\* output list.
C17_RecordOfAllIndexedEvents ==
  \A i \in CallsOf("CreateTrace") :
    \A q \in PacketEvents(history[i].snapshot) :
      kProfilerStreamEvents(history[i].snapshot[q].event_type) =>
        LET c == history[i]
            events == IndexedEvents(i, TaskIdOf(c.snapshot[q]), 1)
            inputs == SelectSeq(events, LAMBDA event : ~event.is_finish)
            outputs == SelectSeq(events, LAMBDA event : event.is_finish)
        IN /\ Len(RecordOf(c, q).input_trace) = Len(inputs)
           /\ Len(RecordOf(c, q).output_trace) = Len(outputs)
           /\ \A n \in 1..Len(inputs) :
                TransferIsOf(c, RecordOf(c, q).input_trace[n], inputs[n])
           /\ \A n \in 1..Len(outputs) :
                TransferIsOf(c, RecordOf(c, q).output_trace[n], outputs[n])

RECURSIVE IndexedProducers(_, _, _)
\* The finish-side packet-detail events with the TransferKey of the event
\* that the calls j..i indexed for call i, in the order they were indexed.
IndexedProducers(i, event, j) ==
  IF j > i THEN <<>>
  ELSE (IF j \in IndexedBy(i) \cup {i}
        THEN SelectSeq(history[j].snapshot, LAMBDA producer :
               /\ kProfilerPacketEvents(producer.event_type)
               /\ producer.is_finish
               /\ SameHop(producer, event))
        ELSE <<>>) \o IndexedProducers(i, event, j + 1)

\* C18 as stated: the producer that a CreateTrace call resolves for a
\* consumer is the finish-side packet-detail event of the same TransferKey
\* that was indexed last, by this call or by an earlier call since the last
\* Clear, before or after the consumer in snapshot order: the start_time of
\* the consumer's transfer is the time of that event.
C18_LastIndexedProducer ==
  \A i \in CallsOf("CreateTrace") : \A q \in 1..Len(history[i].snapshot) :
    Consumer(i, q) =>
      LET c == history[i]
          producers == IndexedProducers(i, c.snapshot[q], 1)
      IN producers # <<>> =>
           InputTransferOf(c, q).start_time =
             Set(Wrap(producers[Len(producers)].event_time
                        - c.result.base_time))

\* C19 as stated: the node_id, event_type, input_timestamp and thread_id of the
\* record that a CreateTrace call builds for a key, of any packet-detail kind,
\* are those of the first event of the key's indexed event list.
C19_IdentityOfFirstEvent ==
  \A i \in CallsOf("CreateTrace") :
    \A q \in PacketEvents(history[i].snapshot) :
      LET c == history[i]
          first == IndexedEvents(i, TaskIdOf(c.snapshot[q]), 1)[1]
      IN /\ RecordOf(c, q).node_id = Set(first.node_id)
         /\ RecordOf(c, q).event_type = Set(first.event_type)
         /\ RecordOf(c, q).input_timestamp =
              Set(Wrap(first.input_ts - c.result.base_timestamp))
         /\ RecordOf(c, q).thread_id = Set(first.thread_id)

\* The record is the verbatim record of the event in the trace of call c,
\* ids being the stream interner after the call.
LogShape(c, record, event, ids) ==
  /\ record.node_id = Set(event.node_id)
  /\ record.event_type = Set(event.event_type)
  /\ record.thread_id = Set(event.thread_id)
  /\ record.start_time =
       IF event.is_finish THEN NotSet
       ELSE Set(Wrap(event.event_time - c.result.base_time))
  /\ record.finish_time =
       IF event.is_finish
       THEN Set(Wrap(event.event_time - c.result.base_time))
       ELSE NotSet
  /\ record.input_timestamp =
       IF event.input_ts = TimestampUnset THEN NotSet
       ELSE Set(Wrap(event.input_ts - c.result.base_timestamp))
  /\ IF kProfilerStreamEvents(event.event_type) /\ event.stream_id # nullptr
     THEN /\ Len(record.input_trace) = IF event.is_finish THEN 0 ELSE 1
          /\ Len(record.output_trace) = IF event.is_finish THEN 1 ELSE 0
          /\ \A t \in Transfers(record) :
               /\ t.stream_id = Set(ids.string_id_map_[StringContent(event.stream_id)])
               /\ t.packet_timestamp =
                    Set(Wrap(event.packet_ts - c.result.base_timestamp))
               /\ t.packet_id # NotSet
               /\ t.start_time = NotSet
               /\ t.finish_time = NotSet
     ELSE record.input_trace = <<>> /\ record.output_trace = <<>>

\* A step is a CreateLog call.
LogStep ==
  /\ Len(history') = Len(history) + 1
  /\ history'[Len(history')].op = "CreateLog"

\* C20: CreateLog emits one record per event of its snapshot, in snapshot
\* order; the record has start_time exactly if the event is start-side and
\* finish_time exactly if it is finish-side, input_timestamp exactly if
\* input_ts is not Unset, and exactly one transfer (output list if
\* finish-side, input list if start-side) exactly if the kind produces
\* stream-hop sub-records and the stream is not null, with stream_id,
\* packet_timestamp and packet_id and neither start_time nor finish_time;
\* the call leaves both indices as they are, and its trace is the one it
\* returns with both indices empty.
C20_VerbatimRecords ==
  [][LogStep =>
       LET c == history'[Len(history')]
       IN /\ Len(c.result.calculator_trace) = Len(c.snapshot)
          /\ \A k \in 1..Len(c.snapshot) :
               LogShape(c, c.result.calculator_trace[k], c.snapshot[k],
                        stream_id_map_')
          /\ UNCHANGED <<task_events_, hop_events_>>
          /\ c.result =
               CreateLogImpl(ClearImpl(Builder),
                             SubSeq(buffer', 1, c.buffer_size),
                             c.begin_time, c.end_time).result]_vars

\* C20 witness: after a CreateTrace call that filled the indices, a CreateLog
\* call logged a start-side event without a stream, a finish-side event with
\* a stream and an event without input timestamp.
C20_Witness ==
  /\ Len(history) = 2
  /\ history[1].op = "CreateTrace"
  /\ history[2].op = "CreateLog"
  /\ task_events_ # EmptyMap /\ hop_events_ # EmptyMap
  /\ \E k, l, m \in 1..Len(history[2].snapshot) :
       /\ history[2].snapshot[k] = OpenStart
       /\ history[2].snapshot[l] = OpenFinish
       /\ history[2].snapshot[m] = NotReady

\* The record of event q of call i routes the events of its key's indexed
\* list: if the kind produces stream-hop sub-records, the start-side events
\* give the input list and the finish-side events the output list, one
\* transfer each and in the order of the list; if not, both lists are empty.
TransfersRouted(i, q) ==
  LET c == history[i]
      events == IndexedEvents(i, TaskIdOf(c.snapshot[q]), 1)
      routed == SelectSeq(events, LAMBDA event :
                  kProfilerStreamEvents(event.event_type))
      inputs == SelectSeq(routed, LAMBDA event : ~event.is_finish)
      outputs == SelectSeq(routed, LAMBDA event : event.is_finish)
  IN /\ Len(RecordOf(c, q).input_trace) = Len(inputs)
     /\ Len(RecordOf(c, q).output_trace) = Len(outputs)
     /\ \A n \in 1..Len(inputs) :
          TransferIsOf(c, RecordOf(c, q).input_trace[n], inputs[n])
     /\ \A n \in 1..Len(outputs) :
          TransferIsOf(c, RecordOf(c, q).output_trace[n], outputs[n])

\* C21 as stated: in the record that a CreateTrace call builds for a key,
\* every event of the key's list of a kind that produces stream-hop
\* sub-records (OPEN, PROCESS, CLOSE, CPU_TASK_USER, CPU_TASK_SYSTEM)
\* contributes exactly one transfer, to the output list if it is finish-side
\* and to the input list otherwise, each list in the order of the events;
\* the events of the other kinds (GPU_TASK, DSP_TASK, TPU_TASK) contribute
\* none.
C21_TransferRouting ==
  \A i \in CallsOf("CreateTrace") :
    \A q \in PacketEvents(history[i].snapshot) : TransfersRouted(i, q)

\* The time of the earliest of the events that are finish-side (finish =
\* TRUE) or start-side (finish = FALSE), relative to the base time of call
\* c; not set if there is no such event.
EarliestOf(c, events, finish) ==
  LET times == {events[n].event_time :
                  n \in {m \in 1..Len(events) : events[m].is_finish = finish}}
  IN IF times = {} THEN NotSet
     ELSE Set(Wrap(Least(times) - c.result.base_time))

\* The record of event q of call i has the times of the earliest start-side
\* and the earliest finish-side event of its key's indexed list.
TimesOfEarliest(i, q) ==
  LET c == history[i]
      events == IndexedEvents(i, TaskIdOf(c.snapshot[q]), 1)
  IN /\ RecordOf(c, q).start_time = EarliestOf(c, events, FALSE)
     /\ RecordOf(c, q).finish_time = EarliestOf(c, events, TRUE)

\* C22 as stated: in the record that a CreateTrace call builds for a key,
\* start_time is the least event_time of the start-side events of the key's
\* list minus the base time and is present exactly if the list has a
\* start-side event; finish_time is the least event_time of the finish-side
\* events minus the base time and is present exactly if the list has a
\* finish-side event.
C22_EarliestStartAndFinish ==
  \A i \in CallsOf("CreateTrace") :
    \A q \in PacketEvents(history[i].snapshot) : TimesOfEarliest(i, q)

\* The last call was a CreateTrace call, and no Clear came after it: the
\* indices are as that call read them.
AfterCreateTrace ==
  /\ history # <<>>
  /\ history[Len(history)].op = "CreateTrace"

\* The entries of the invocation index that the last CreateTrace call read to
\* build its records: the lists of the keys of its snapshot.
TaskEntriesRead ==
  LET c == history[Len(history)]
  IN UNION {{task_events_[key][n] : n \in 1..Len(task_events_[key])} :
              key \in PacketKeys(c.snapshot)}

\* The entries of the hop index that the last CreateTrace call read to
\* resolve the producers of the start-side events of its snapshot.
HopEntriesRead ==
  LET c == history[Len(history)]
      hops == {TaskId(StreamIdOf(c.snapshot[q]), c.snapshot[q].packet_ts,
                      c.snapshot[q].event_type) :
                 q \in {k \in PacketEvents(c.snapshot) :
                          /\ kProfilerStreamEvents(c.snapshot[k].event_type)
                          /\ ~c.snapshot[k].is_finish}}
  IN {hop_events_[hop_id] : hop_id \in hops \cap DOMAIN hop_events_}

\* C23 as stated: every entry of the invocation index and of the hop index
\* that a CreateTrace call reads refers to an event of the snapshot of that
\* call (or is the null entry of a hop without producer), never to the
\* snapshot of an earlier call, with or without Clear in between.
C23_IndexedReferencesValid ==
  AfterCreateTrace =>
    /\ \A entry \in TaskEntriesRead : entry.gen = Calls
    /\ \A entry \in HopEntriesRead : entry.gen \in {0, Calls}

=============================================================================
